---- MODULE Spec2Model ----
(***************************************************************************)
(* A model of the streamable HTTP adapter of markitdown_mcp_server:        *)
(*   - mcp_handler, the POST /mcp handler (streamable_http_adapter.py),    *)
(*     with the two collaborators it awaits, list_prompts and get_prompt   *)
(*     (markitdown_mcp_server/server.py);                                  *)
(*   - health, the GET /health handler;                                    *)
(*   - MemoryReader, the in-memory stream reader.                          *)
(*                                                                         *)
(* JSON values are records tagged by "kind"; a JSON object carries one     *)
(* field per key it holds, so that dict.get sees present and absent keys.  *)
(* A request body is a sequence of chunks of bytes: a byte that is not     *)
(* valid UTF-8, a character that starts no JSON value, a JSON whitespace   *)
(* character, or the text of one JSON value.                               *)
(***************************************************************************)
EXTENDS Integers, Sequences, FiniteSets, TLC

VARIABLES
    pc,            \* where mcp_handler stands in the current exchange
    body,          \* the bytes of the request on the wire
    request_data,  \* mcp_handler's local: what request.read() returned
    message,       \* mcp_handler's local: what json.loads returned
    written,       \* the envelopes written to resp, in order
    eofs,          \* how many times resp.write_eof() was called
    calls,         \* how many times each collaborator was invoked
    raised,        \* str(e) of the exception the collaborator raised, if any
    exc,           \* the exception that left mcp_handler, if any
    probe,         \* the GET /health request in flight and its response
    reader_data,      \* MemoryReader._data
    reader_position,  \* MemoryReader._position
    reader_eof,       \* MemoryReader._eof
    rpc,           \* where the consumer stands in the MemoryReader call it made
    op,            \* the MemoryReader call the consumer made last
    ncalls,        \* how many MemoryReader calls the consumer has made
    last,          \* the bytes the last call that ended handed to the consumer
    returned,      \* the bytes handed to the consumer so far, concatenated
    err,           \* whether the last call that ended raised IncompleteReadError
    writer_data,   \* MemoryWriter._data
    wrote,         \* the bytes the engine has written, in order
    task,          \* where the engine task of a streaming exchange stands
    drain,         \* where the drain loop of a streaming exchange stands
    sent,          \* how many bytes of the writer the drain loop has emitted
    frames,        \* the frames emitted to the HTTP client, in order
    closed,        \* whether the streaming response has been closed
    parked,        \* the locals of the exchange the event loop is not running
    current        \* which of the two concurrent exchanges is running

exchange == <<pc, body, request_data, message, written, eofs, calls, raised, exc>>
reader == <<reader_data, reader_position, reader_eof, rpc, op, ncalls, last, returned, err>>
stream == <<writer_data, wrote, task, drain, sent, frames, closed>>
conc == <<parked, current>>
vars == <<exchange, probe, reader, stream, conc>>

----------------------------------------------------------------------------
(* Bounds *)

\* The longest request body, in chunks.
MaxBodyLen == 2

\* The most bytes the producer writes to a MemoryReader.
MaxData == 3

\* The most calls the consumer makes on a MemoryReader.
MaxOps == 3

\* The most bytes the engine writes to a MemoryWriter.
MaxOut == 3

----------------------------------------------------------------------------
(* JSON-RPC error codes set by mcp_handler *)

INVALID_REQUEST == -32600
PARSE_ERROR == -32700
METHOD_NOT_FOUND == -32601
INTERNAL_ERROR == -32603

----------------------------------------------------------------------------
(* Python and JSON values *)

None == [kind |-> "null"]
Str(s) == [kind |-> "string", s |-> s]
Array == [kind |-> "array"]
EmptyDict == [kind |-> "object"]
NoKey == [k \in {} |-> None]

IsDict(v) == v.kind = "object"

\* dict.get(key, default)
GetOr(d, key, default) == IF key \in DOMAIN d THEN d[key] ELSE default

\* dict.get(key)
Get(d, key) == GetOr(d, key, None)

\* bool(v) for the values get_prompt tests with "not"
Truthy(v) ==
    CASE v.kind = "null" -> FALSE
      [] v.kind = "object" -> DOMAIN v # {"kind"}
      [] v.kind = "string" -> v.s # ""
      [] OTHER -> TRUE

----------------------------------------------------------------------------
(* The requests a client can post *)

Methods == {Str("initialize"), Str("prompts/list"), Str("prompts/get"), Str("tools/list")}
Ids == {Str("id1")}
Names == {Str("md"), Str("ls"), Str("zz"), Array}
Arguments ==
    {EmptyDict,
     EmptyDict @@ [file_path |-> Str("doc.pdf")],
     EmptyDict @@ [directory |-> Str("/tmp")],
     Str("text")}

Opt(key, values) == {NoKey} \cup {key :> v : v \in values}

ParamsOfGet ==
    {None} \cup {EmptyDict @@ n @@ a : n \in Opt("name", Names), a \in Opt("arguments", Arguments)}

Messages ==
    {EmptyDict @@ m @@ i @@ p :
        m \in Opt("method", Methods \ {Str("prompts/get")}),
        i \in Opt("id", Ids),
        p \in Opt("params", {None})}
    \cup
    {EmptyDict @@ [method |-> Str("prompts/get")] @@ i @@ p :
        i \in Opt("id", Ids),
        p \in Opt("params", ParamsOfGet)}

JsonValues == Messages \cup {Array}

BAD == [t |-> "bad"]       \* a byte that is not valid UTF-8 (0xFF)
JUNK == [t |-> "junk"]     \* a character that starts no JSON value
WS == [t |-> "ws"]         \* a JSON whitespace character
Json(v) == [t |-> "json", v |-> v]

Chunks == {BAD, JUNK, WS} \cup {Json(v) : v \in JsonValues}

IsJson(c) == c.t = "json"
IsNotWs(c) == c.t # "ws"

Bodies ==
    {b \in UNION {[1..n -> Chunks] : n \in 0..MaxBodyLen} :
        Len(SelectSeq(b, IsJson)) <= 1}

----------------------------------------------------------------------------
(* bytes.decode('utf-8') and json.loads *)

\* request_data.decode('utf-8'): UnicodeDecodeError on a byte that is not
\* UTF-8, else the text.
decode(data) ==
    IF \E k \in 1..Len(data) : data[k] = BAD
    THEN [ok |-> FALSE, error |-> "UnicodeDecodeError"]
    ELSE [ok |-> TRUE, text |-> data]

\* A json.loads that stops at the end of the first value, as raw_decode does.
loads_first_value(text) ==
    LET rest == SelectSeq(text, IsNotWs) IN
    IF Len(rest) >= 1 /\ IsJson(rest[1])
    THEN [ok |-> TRUE, value |-> rest[1].v]
    ELSE [ok |-> FALSE, error |-> "Expecting value"]

\* json.loads(text): whitespace around the value is skipped; the text must
\* hold exactly one value, else JSONDecodeError.
loads(text) ==
    LET rest == SelectSeq(text, IsNotWs) IN
    IF Len(rest) = 1 /\ IsJson(rest[1])
    THEN [ok |-> TRUE, value |-> rest[1].v]
    ELSE [ok |-> FALSE,
          error |-> IF Len(rest) = 0 \/ ~IsJson(rest[1])
                    THEN "Expecting value" ELSE "Extra data"]

----------------------------------------------------------------------------
(* The envelopes mcp_handler writes.  A message text is the sequence of the  *)
(* parts its f-string joins.                                                *)

ErrorEnvelope(id, code, text) ==
    [jsonrpc |-> "2.0", id |-> id, error |-> [code |-> code, message |-> text]]

ResultEnvelope(id, result) ==
    [jsonrpc |-> "2.0", id |-> id, result |-> result]

\* The empty body reported with the code of the except clause below it.
EmptyBodyEnvelope_internal ==
    ErrorEnvelope(None, INTERNAL_ERROR, <<Str("Empty request body")>>)

\* lines 143-147
EmptyBodyEnvelope == ErrorEnvelope(None, INVALID_REQUEST, <<Str("Empty request body")>>)

\* lines 154-158
ReadErrorEnvelope(e) == ErrorEnvelope(None, INTERNAL_ERROR, <<Str(e)>>)

\* lines 169-173
ParseErrorEnvelope(e) == ErrorEnvelope(None, PARSE_ERROR, <<Str("Parse error: "), Str(e)>>)

\* The unknown method reported with id None, as the rejections are.
MethodNotFoundEnvelope_no_id(msg_id, method) ==
    ErrorEnvelope(None, METHOD_NOT_FOUND, <<Str("Method not found: "), method>>)

\* lines 260-267
MethodNotFoundEnvelope(msg_id, method) ==
    ErrorEnvelope(msg_id, METHOD_NOT_FOUND, <<Str("Method not found: "), method>>)

\* The internal error reported without str(e).
InternalErrorEnvelope_no_description(msg, e) ==
    ErrorEnvelope(IF IsDict(msg) THEN Get(msg, "id") ELSE None,
                  INTERNAL_ERROR, <<Str("Internal error: ")>>)

\* lines 272-279
InternalErrorEnvelope(msg, e) ==
    ErrorEnvelope(IF IsDict(msg) THEN Get(msg, "id") ELSE None,
                  INTERNAL_ERROR, <<Str("Internal error: ")>> \o e)

\* An initialize result that takes its id from a variable the exchanges
\* share, which holds the id of the message parsed last.
InitializeEnvelope_shared_id(msg_id) ==
    ResultEnvelope(IF parked.message.bound /\ IsDict(parked.message.value)
                   THEN Get(parked.message.value, "id")
                   ELSE msg_id,
        [protocolVersion |-> "2024-11-05",
         capabilities |-> [prompts |-> [listChanged |-> FALSE]],
         serverInfo |-> [name |-> "markitdown_mcp_server", version |-> "0.1.0"]])

\* lines 188-203
InitializeEnvelope(msg_id) ==
    ResultEnvelope(msg_id,
        [protocolVersion |-> "2024-11-05",
         capabilities |-> [prompts |-> [listChanged |-> FALSE]],
         serverInfo |-> [name |-> "markitdown_mcp_server", version |-> "0.1.0"]])

\* lines 210-230
PromptsListEnvelope(msg_id, prompts_list) ==
    ResultEnvelope(msg_id,
        [prompts |-> [k \in 1..Len(prompts_list) |->
            [name |-> prompts_list[k].name,
             arguments |-> prompts_list[k].arguments]]])

\* lines 240-255
PromptGetEnvelope(msg_id, prompt_result) ==
    ResultEnvelope(msg_id,
        [messages |-> [k \in 1..Len(prompt_result) |->
            [role |-> prompt_result[k].role,
             content |-> [type |-> "text", text |-> prompt_result[k].text]]]])

----------------------------------------------------------------------------
(* The collaborators: markitdown_mcp_server/server.py *)

PROMPTS ==
    (Str("md") :> [name |-> "md", arguments |-> <<[name |-> "file_path", required |-> TRUE]>>])
    @@
    (Str("ls") :> [name |-> "ls", arguments |-> <<[name |-> "directory", required |-> TRUE]>>])

Return(v) == [kind |-> "return", value |-> v]
Raise(e) == [kind |-> "raise", error |-> e]
Blocks == [kind |-> "blocks"]

\* list(PROMPTS.values())
list_prompts == Return(<<PROMPTS[Str("md")], PROMPTS[Str("ls")]>>)

PromptMessage(text) == <<[role |-> "user", text |-> text]>>

\* The outcomes get_prompt(name, arguments) can have.  MarkItDown.convert and
\* os.listdir are calls into the environment: convert_to_markdown turns every
\* exception of convert into a text, listdir can fail, and either can block.
get_prompt(name, arguments) ==
    IF name.kind \in {"array", "object"}
    THEN {Raise(<<Str("unhashable type")>>)}
    ELSE IF name \notin DOMAIN PROMPTS
    THEN {Raise(<<Str("Prompt not found: "), name>>)}
    ELSE IF name = Str("md")
    THEN IF ~Truthy(arguments)
         THEN {Raise(<<Str("Arguments required")>>)}
         ELSE IF ~IsDict(arguments)
         THEN {Raise(<<Str("'str' object has no attribute 'get'")>>)}
         ELSE IF ~Truthy(Get(arguments, "file_path"))
         THEN {Raise(<<Str("file_path is required")>>)}
         ELSE {Return(PromptMessage("converted document")), Blocks}
    ELSE IF name = Str("ls")
    THEN IF ~IsDict(arguments)
         THEN {Raise(<<Str("Error listing directory: "), Str("TypeError")>>)}
         ELSE IF "directory" \notin DOMAIN arguments
         THEN {Raise(<<Str("Error listing directory: "), Str("KeyError")>>)}
         ELSE {Return(PromptMessage("directory listing")),
               Raise(<<Str("Error listing directory: "), Str("OSError")>>),
               Blocks}
    ELSE {Raise(<<Str("Prompt implementation not found")>>)}

----------------------------------------------------------------------------
(* MemoryReader: streamable_http_adapter.py, lines 29-96.  One producer      *)
(* calls write and set_eof, one consumer calls read, readline and            *)
(* readexactly; a call runs without interruption up to its await.           *)

\* b'\n'
NL == 10

Bytes == {NL, 97, 98}

Min(a, b) == IF a <= b THEN a ELSE b

\* data[i:j] for 0 <= i
Slice(data, i, j) == SubSeq(data, i + 1, Min(j, Len(data)))

\* What the producer may write in one call.
WriteChunks == UNION {[1..n -> Bytes] : n \in 1..MaxData}

ReadSizes == {-1, 1, 2}

\* The sizes the consumer asks readexactly for.
ExactSizes == {1, 2}

\* Lines 70-74: the loop of readline, from _position on.
RECURSIVE scan(_, _)
scan(data, position) ==
    IF position < Len(data)
    THEN IF Slice(data, position, position + 1) = <<NL>>
         THEN [found |-> TRUE, position |-> position + 1]
         ELSE scan(data, position + 1)
    ELSE [found |-> FALSE, position |-> position]

\* A readline that returns the tail at end of stream and leaves the cursor.
readline_tail_kept(data, position, eof) ==
    LET start == position
        s == scan(data, position)
    IN  IF s.found
        THEN [result |-> Slice(data, start, s.position), position |-> s.position,
              sleep |-> FALSE]
        ELSE IF eof /\ start < Len(data)
        THEN [result |-> Slice(data, start, Len(data)), position |-> start,
              sleep |-> FALSE]
        ELSE IF eof
        THEN [result |-> <<>>, position |-> s.position, sleep |-> FALSE]
        ELSE [result |-> <<>>, position |-> start, sleep |-> TRUE]

\* A readline that leaves the cursor where its scan has ended.
readline_no_reset(data, position, eof) ==
    LET start == position
        s == scan(data, position)
    IN  IF s.found
        THEN [result |-> Slice(data, start, s.position), position |-> s.position,
              sleep |-> FALSE]
        ELSE IF eof /\ start < Len(data)
        THEN [result |-> Slice(data, start, Len(data)), position |-> Len(data),
              sleep |-> FALSE]
        ELSE IF eof
        THEN [result |-> <<>>, position |-> s.position, sleep |-> FALSE]
        ELSE [result |-> <<>>, position |-> s.position, sleep |-> TRUE]

\* Lines 65-89: the result of readline, the cursor it leaves, and whether it
\* sleeps before it returns.
readline(data, position, eof) ==
    LET start == position
        s == scan(data, position)
    IN  IF s.found
        THEN [result |-> Slice(data, start, s.position), position |-> s.position,
              sleep |-> FALSE]
        ELSE IF eof /\ start < Len(data)
        THEN [result |-> Slice(data, start, Len(data)), position |-> Len(data),
              sleep |-> FALSE]
        ELSE IF eof
        THEN [result |-> <<>>, position |-> s.position, sleep |-> FALSE]
        ELSE [result |-> <<>>, position |-> start, sleep |-> TRUE]

\* A read that moves the cursor by n, whatever is there.
read_slice_unclamped(data, position, n) ==
    IF n = -1
    THEN [result |-> Slice(data, position, Len(data)), position |-> Len(data)]
    ELSE [result |-> Slice(data, position, position + n), position |-> position + n]

\* A read that hands out all the unread bytes, whatever n is.
read_slice_all(data, position, n) ==
    [result |-> Slice(data, position, Len(data)), position |-> Len(data)]

\* Lines 55-63: the bytes read hands out and the cursor it leaves.
read_slice(data, position, n) ==
    IF n = -1
    THEN [result |-> Slice(data, position, Len(data)), position |-> Len(data)]
    ELSE LET end == Min(position + n, Len(data))
         IN  [result |-> Slice(data, position, end), position |-> end]

\* Lines 32-35
ReaderInit ==
    /\ reader_data = <<>>
    /\ reader_position = 0
    /\ reader_eof = FALSE
    /\ rpc = "idle"
    /\ op = [name |-> "none", n |-> 0]
    /\ ncalls = 0
    /\ last = <<>>
    /\ returned = <<>>
    /\ err = FALSE

\* Lines 37-39: write appends, whatever _eof is.
ReaderWrite ==
    /\ \E d \in WriteChunks :
        /\ Len(reader_data) + Len(d) <= MaxData
        /\ reader_data' = reader_data \o d
    /\ UNCHANGED <<reader_position, reader_eof, rpc, op, ncalls, last, returned, err>>
    /\ UNCHANGED <<exchange, probe, stream, conc>>

\* Lines 41-43
SetEof ==
    /\ reader_eof' = TRUE
    /\ UNCHANGED <<reader_data, reader_position, rpc, op, ncalls, last, returned, err>>
    /\ UNCHANGED <<exchange, probe, stream, conc>>

\* The consumer gets a result.
Returns(result) ==
    /\ last' = result
    /\ returned' = returned \o result
    /\ err' = FALSE
    /\ rpc' = "idle"

\* Lines 65-88: a call of readline, up to its return or its sleep.
ReadLine ==
    /\ rpc = "idle"
    /\ ncalls < MaxOps
    /\ ncalls' = ncalls + 1
    /\ op' = [name |-> "readline", n |-> 0]
    /\ LET r == readline(reader_data, reader_position, reader_eof)
       IN  /\ reader_position' = r.position
           /\ IF r.sleep
              THEN /\ rpc' = "readline_sleep"
                   /\ UNCHANGED <<last, returned, err>>
              ELSE Returns(r.result)
    /\ UNCHANGED <<reader_data, reader_eof>>
    /\ UNCHANGED <<exchange, probe, stream, conc>>

\* Lines 88-89: the sleep of readline ends and it returns b"".
ReadLineWake ==
    /\ rpc = "readline_sleep"
    /\ Returns(<<>>)
    /\ UNCHANGED <<reader_data, reader_position, reader_eof, op, ncalls>>
    /\ UNCHANGED <<exchange, probe, stream, conc>>

\* Lines 45-63: a call of read(n), up to its return or its sleep.
Read ==
    /\ rpc = "idle"
    /\ ncalls < MaxOps
    /\ ncalls' = ncalls + 1
    /\ \E n \in ReadSizes :
        /\ op' = [name |-> "read", n |-> n]
        /\ IF reader_position >= Len(reader_data)
           THEN IF reader_eof
                THEN /\ Returns(<<>>)
                     /\ UNCHANGED reader_position
                ELSE /\ rpc' = "read_sleep"
                     /\ UNCHANGED <<reader_position, last, returned, err>>
           ELSE LET r == read_slice(reader_data, reader_position, n)
                IN  /\ reader_position' = r.position
                    /\ Returns(r.result)
    /\ UNCHANGED <<reader_data, reader_eof>>
    /\ UNCHANGED <<exchange, probe, stream, conc>>

\* Lines 51-63: the sleep of read ends; it gives up, or hands out what came.
ReadWake ==
    /\ rpc = "read_sleep"
    /\ IF reader_position >= Len(reader_data)
       THEN /\ Returns(<<>>)
            /\ UNCHANGED reader_position
       ELSE LET r == read_slice(reader_data, reader_position, op.n)
            IN  /\ reader_position' = r.position
                /\ Returns(r.result)
    /\ UNCHANGED <<reader_data, reader_eof, op, ncalls>>
    /\ UNCHANGED <<exchange, probe, stream, conc>>

\* Line 95: IncompleteReadError(result, n) leaves readexactly; the exception
\* carries the bytes that read has consumed.
Raises(partial) ==
    /\ last' = partial
    /\ returned' = returned \o partial
    /\ err' = TRUE
    /\ rpc' = "idle"

\* A readexactly that returns whatever its read has returned.
Finishes_truncated(result, n) == Returns(result)

\* Lines 94-96: what readexactly does with the result of its one read.
Finishes(result, n) ==
    IF Len(result) < n THEN Raises(result) ELSE Returns(result)

\* Lines 91-96 and 45-63: a call of readexactly(n), up to its end or to the
\* sleep of the read it makes.
ReadExactly ==
    /\ rpc = "idle"
    /\ ncalls < MaxOps
    /\ ncalls' = ncalls + 1
    /\ \E n \in ExactSizes :
        /\ op' = [name |-> "readexactly", n |-> n]
        /\ IF reader_position >= Len(reader_data)
           THEN IF reader_eof
                THEN /\ Finishes(<<>>, n)
                     /\ UNCHANGED reader_position
                ELSE /\ rpc' = "readexactly_sleep"
                     /\ UNCHANGED <<reader_position, last, returned, err>>
           ELSE LET r == read_slice(reader_data, reader_position, n)
                IN  /\ reader_position' = r.position
                    /\ Finishes(r.result, n)
    /\ UNCHANGED <<reader_data, reader_eof>>
    /\ UNCHANGED <<exchange, probe, stream, conc>>

\* Lines 51-63 and 94-96: the sleep of the read ends, and readexactly ends.
ReadExactlyWake ==
    /\ rpc = "readexactly_sleep"
    /\ IF reader_position >= Len(reader_data)
       THEN /\ Finishes(<<>>, op.n)
            /\ UNCHANGED reader_position
       ELSE LET r == read_slice(reader_data, reader_position, op.n)
            IN  /\ reader_position' = r.position
                /\ Finishes(r.result, op.n)
    /\ UNCHANGED <<reader_data, reader_eof, op, ncalls>>
    /\ UNCHANGED <<exchange, probe, stream, conc>>

----------------------------------------------------------------------------
(* MemoryWriter: streamable_http_adapter.py, lines 99-119, and the streaming  *)
(* mode that relays it: spec.md, 4.3 and 5.  The engine task writes to a      *)
(* MemoryWriter; the drain loop polls it and emits what is new as one frame.  *)
(* The drain loop is not in streamable_http_adapter.py: it is modelled from   *)
(* the spec, which has its completion check look at the task first and at     *)
(* the buffer afterwards.                                                    *)

\* What the engine may write in one call.
OutChunks == UNION {[1..n -> {97, 98}] : n \in 1..2}

RECURSIVE join(_)
\* b"".join(chunks)
join(chunks) ==
    IF chunks = <<>> THEN <<>> ELSE Head(chunks) \o join(Tail(chunks))

\* A write that keeps the last chunk only.
MemoryWriter_write_last(data, d) == <<d>>

\* Lines 105-107: self._data.append(data)
MemoryWriter_write(data, d) == Append(data, d)

\* Lines 117-119
get_data(data) == join(data)

\* Lines 102-103, and a streaming exchange that has just started its engine.
StreamInit ==
    /\ writer_data = <<>>
    /\ wrote = <<>>
    /\ task = "running"
    /\ drain = "poll"
    /\ sent = 0
    /\ frames = <<>>
    /\ closed = FALSE

\* The engine writes a chunk to its output stream.
EngineWrite ==
    /\ task = "running"
    /\ \E d \in OutChunks :
        /\ Len(wrote) + Len(d) <= MaxOut
        /\ writer_data' = MemoryWriter_write(writer_data, d)
        /\ wrote' = wrote \o d
    /\ UNCHANGED <<task, drain, sent, frames, closed>>
    /\ UNCHANGED <<exchange, probe, reader, conc>>

\* The engine task finishes.
EngineDone ==
    /\ task = "running"
    /\ task' = "done"
    /\ UNCHANGED <<writer_data, wrote, drain, sent, frames, closed>>
    /\ UNCHANGED <<exchange, probe, reader, conc>>

\* The drain loop wakes from its short sleep and looks at the task.
DrainObserve ==
    /\ drain = "poll"
    /\ drain' = IF task = "done" THEN "inspect_done" ELSE "inspect_running"
    /\ UNCHANGED <<writer_data, wrote, task, sent, frames, closed>>
    /\ UNCHANGED <<exchange, probe, reader, conc>>

\* The drain loop looks at the buffer: new bytes go out as one frame; with
\* no new byte it leaves the loop if it has seen the task done, and sleeps
\* otherwise.
DrainInspect ==
    /\ drain \in {"inspect_done", "inspect_running"}
    /\ LET out == get_data(writer_data)
           new == SubSeq(out, sent + 1, Len(out))
       IN  IF new # <<>>
           THEN /\ frames' = Append(frames, new)
                /\ sent' = Len(out)
                /\ drain' = "poll"
           ELSE /\ drain' = IF drain = "inspect_done" THEN "exited" ELSE "poll"
                /\ UNCHANGED <<frames, sent>>
    /\ UNCHANGED <<writer_data, wrote, task, closed>>
    /\ UNCHANGED <<exchange, probe, reader, conc>>

\* The drain loop has ended: the response is terminated.
DrainClose ==
    /\ drain = "exited"
    /\ ~closed
    /\ closed' = TRUE
    /\ UNCHANGED <<writer_data, wrote, task, drain, sent, frames>>
    /\ UNCHANGED <<exchange, probe, reader, conc>>

Drain == DrainObserve \/ DrainInspect \/ DrainClose

----------------------------------------------------------------------------
(* mcp_handler: streamable_http_adapter.py, lines 122-287 *)

\* A local that is not assigned yet, and one that holds v.
Unbound == [bound |-> FALSE]
Bound(v) == [bound |-> TRUE, value |-> v]

NoCalls == [list_prompts |-> 0, get_prompt |-> 0]
NoError == <<>>

Terminal == {"returned", "raised"}

\* No exchange is in progress: what a new exchange starts from.
Fresh ==
    /\ body = <<>>
    /\ request_data = Unbound
    /\ message = Unbound
    /\ written = <<>>
    /\ eofs = 0
    /\ calls = NoCalls
    /\ raised = NoError
    /\ exc = NoError

\* The locals of an exchange that has not started.
FreshLocals ==
    [pc |-> "idle", body |-> <<>>, request_data |-> Unbound,
     message |-> Unbound, written |-> <<>>, eofs |-> 0, calls |-> NoCalls,
     raised |-> NoError, exc |-> NoError]

\* No second exchange has arrived.
ConcInit ==
    /\ parked = FreshLocals
    /\ current = 1

Init ==
    /\ pc = "idle"
    /\ Fresh
    /\ probe = [state |-> "none"]
    /\ ReaderInit
    /\ StreamInit
    /\ ConcInit

\* A client posts a body to /mcp; the handler builds the response and
\* prepares it (lines 126-134).
Arrive ==
    /\ pc = "idle"
    /\ \E b \in Bodies : body' = b
    /\ pc' = "read"
    /\ UNCHANGED <<request_data, message, written, eofs, calls, raised, exc, probe, reader, stream, conc>>

\* Lines 137-161: request.read() fails, or returns the body, and an empty body
\* is rejected.
ReadBody ==
    /\ pc = "read"
    /\ \E failure \in {"", "ClientPayloadError"} :
        IF failure # ""
        THEN /\ written' = Append(written, ReadErrorEnvelope(failure))
             /\ eofs' = eofs + 1
             /\ pc' = "returned"
             /\ UNCHANGED request_data
        ELSE /\ request_data' = Bound(body)
             /\ IF Len(body) = 0
                THEN /\ written' = Append(written, EmptyBodyEnvelope)
                     /\ eofs' = eofs + 1
                     /\ pc' = "returned"
                ELSE /\ pc' = "parse"
                     /\ UNCHANGED <<written, eofs>>
    /\ UNCHANGED <<body, message, calls, raised, exc, probe, reader, stream, conc>>

\* Lines 163-176: only json.JSONDecodeError is caught; UnicodeDecodeError is
\* not one, and leaves the handler.
Parse ==
    /\ pc = "parse"
    /\ LET text == decode(request_data.value) IN
       IF ~text.ok
       THEN /\ exc' = <<Str(text.error)>>
            /\ pc' = "raised"
            /\ UNCHANGED <<message, written, eofs>>
       ELSE LET parsed == loads(text.text) IN
            IF ~parsed.ok
            THEN /\ written' = Append(written, ParseErrorEnvelope(parsed.error))
                 /\ eofs' = eofs + 1
                 /\ pc' = "returned"
                 /\ UNCHANGED <<message, exc>>
            ELSE /\ message' = Bound(parsed.value)
                 /\ pc' = "dispatch"
                 /\ UNCHANGED <<written, eofs, exc>>
    /\ UNCHANGED <<body, request_data, calls, raised, probe, reader, stream, conc>>

\* An except clause that logs the exception and writes nothing.
HandleException_silent(w, msg, e) == w

\* Lines 270-280: the except clause of the dispatch, which writes the
\* internal-error envelope and falls through to write_eof.
HandleException(w, msg, e) == Append(w, InternalErrorEnvelope(msg, e))

\* Lines 179-268, up to the collaborator's await or the envelope's write.
Dispatch ==
    /\ pc = "dispatch"
    /\ LET msg == message.value IN
       IF ~IsDict(msg)
       THEN /\ written' = HandleException(written, msg,
                              <<Str("'list' object has no attribute 'get'")>>)
            /\ pc' = "write_eof"
            /\ UNCHANGED calls
       ELSE LET method == Get(msg, "method")
                msg_id == Get(msg, "id")
                params == GetOr(msg, "params", EmptyDict)
            IN  CASE method = Str("initialize") ->
                        /\ written' = Append(written, InitializeEnvelope(msg_id))
                        /\ pc' = "write_eof"
                        /\ UNCHANGED calls
                  [] method = Str("prompts/list") ->
                        /\ calls' = [calls EXCEPT !.list_prompts = @ + 1]
                        /\ pc' = "await_list_prompts"
                        /\ UNCHANGED written
                  [] method = Str("prompts/get") ->
                        IF ~IsDict(params)
                        THEN /\ written' = HandleException(written, msg,
                                   <<Str("'NoneType' object has no attribute 'get'")>>)
                             /\ pc' = "write_eof"
                             /\ UNCHANGED calls
                        ELSE /\ calls' = [calls EXCEPT !.get_prompt = @ + 1]
                             /\ pc' = "await_get_prompt"
                             /\ UNCHANGED written
                  [] OTHER ->
                        /\ written' = Append(written, MethodNotFoundEnvelope(msg_id, method))
                        /\ pc' = "write_eof"
                        /\ UNCHANGED calls
    /\ UNCHANGED <<body, request_data, message, eofs, raised, exc, probe, reader, stream, conc>>

\* Lines 208-231: list_prompts returns and the result is written.
ListPromptsReturns ==
    /\ pc = "await_list_prompts"
    /\ written' = Append(written,
                    PromptsListEnvelope(Get(message.value, "id"), list_prompts.value))
    /\ pc' = "write_eof"
    /\ UNCHANGED <<body, request_data, message, eofs, calls, raised, exc, probe, reader, stream, conc>>

\* Lines 235-256 and 270-280: get_prompt returns and the result is written, or
\* it raises and the except clause writes the error.
GetPromptFinishes ==
    /\ pc = "await_get_prompt"
    /\ LET msg == message.value
           params == GetOr(msg, "params", EmptyDict)
       IN  \E out \in get_prompt(Get(params, "name"), Get(params, "arguments")) :
              /\ out.kind # "blocks"
              /\ IF out.kind = "return"
                 THEN /\ written' = Append(written,
                                      PromptGetEnvelope(Get(msg, "id"), out.value))
                      /\ UNCHANGED raised
                 ELSE /\ raised' = out.error
                      /\ written' = HandleException(written, msg, out.error)
    /\ pc' = "write_eof"
    /\ UNCHANGED <<body, request_data, message, eofs, calls, exc, probe, reader, stream, conc>>

\* Line 238: the call into MarkItDown.convert or os.listdir never returns.
\* Nothing bounds the await, and the call runs on the event loop's thread.
GetPromptBlocks ==
    /\ pc = "await_get_prompt"
    /\ LET params == GetOr(message.value, "params", EmptyDict)
       IN  Blocks \in get_prompt(Get(params, "name"), Get(params, "arguments"))
    /\ pc' = "blocked"
    /\ UNCHANGED <<body, request_data, message, written, eofs, calls, raised, exc, probe, reader, stream, conc>>

\* Lines 282-287: the response is terminated and the handler returns.
Complete ==
    /\ pc = "write_eof"
    /\ eofs' = eofs + 1
    /\ pc' = "returned"
    /\ UNCHANGED <<body, request_data, message, written, calls, raised, exc, probe, reader, stream, conc>>

\* The handler has returned or raised; the server drops the exchange's
\* objects and is ready for the next request.
Release ==
    /\ pc \in Terminal
    /\ pc' = "idle"
    /\ body' = <<>>
    /\ request_data' = Unbound
    /\ message' = Unbound
    /\ written' = <<>>
    /\ eofs' = 0
    /\ calls' = NoCalls
    /\ raised' = NoError
    /\ exc' = NoError
    /\ UNCHANGED <<probe, reader, stream, conc>>

----------------------------------------------------------------------------
(* mcp_handler when the client has disconnected: resp.write and              *)
(* resp.write_eof raise.  A write that fails inside a try is caught by an    *)
(* except clause that writes again.                                         *)

\* What resp.write raises once the client is gone.
WriteFailure == <<Str("ConnectionResetError")>>

\* An exception of a write leaves mcp_handler.
Escapes ==
    /\ exc' = WriteFailure
    /\ pc' = "raised"

\* Lines 137-161: the rejection of a failed read or of an empty body, with
\* the client gone before the write (delivered = FALSE) or between the write
\* and write_eof.  A failure at lines 148-149 is caught at line 152, and the
\* write of line 159 fails in its turn; nothing guards lines 159-160.
ReadBodyGone ==
    /\ pc = "read"
    /\ \E failure \in {"", "ClientPayloadError"}, delivered \in BOOLEAN :
        /\ failure = "" => Len(body) = 0
        /\ request_data' = IF failure = "" THEN Bound(body) ELSE request_data
        /\ written' = IF ~delivered THEN written
                      ELSE IF failure = "" THEN Append(written, EmptyBodyEnvelope)
                      ELSE Append(written, ReadErrorEnvelope(failure))
    /\ Escapes
    /\ UNCHANGED <<body, message, eofs, calls, raised, probe, reader, stream, conc>>

\* Lines 167-176: the rejection of malformed JSON with the client gone;
\* nothing guards lines 174-175.
ParseGone ==
    /\ pc = "parse"
    /\ LET text == decode(request_data.value) IN
        /\ text.ok
        /\ LET parsed == loads(text.text) IN
            /\ ~parsed.ok
            /\ \E delivered \in BOOLEAN :
                written' = IF delivered
                           THEN Append(written, ParseErrorEnvelope(parsed.error))
                           ELSE written
    /\ Escapes
    /\ UNCHANGED <<body, request_data, message, eofs, calls, raised, probe, reader, stream, conc>>

\* Whether the dispatch of msg writes to resp before it awaits a collaborator.
WritesAtOnce(msg) ==
    \/ ~IsDict(msg)
    \/ Get(msg, "method") \notin {Str("prompts/list"), Str("prompts/get")}
    \/ /\ Get(msg, "method") = Str("prompts/get")
       /\ ~IsDict(GetOr(msg, "params", EmptyDict))

\* Lines 179-280: a write of the dispatch fails with the client gone, the
\* except clause of line 270 catches it, and its own write, line 280, fails
\* with nothing to catch it.
DispatchGone ==
    /\ pc = "dispatch"
    /\ WritesAtOnce(message.value)
    /\ Escapes
    /\ UNCHANGED <<body, request_data, message, written, eofs, calls, raised, probe, reader, stream, conc>>

\* Lines 230 and 270-280: the same after list_prompts has returned.
ListPromptsReturnsGone ==
    /\ pc = "await_list_prompts"
    /\ Escapes
    /\ UNCHANGED <<body, request_data, message, written, eofs, calls, raised, probe, reader, stream, conc>>

\* Lines 255 and 270-280: the same after get_prompt has returned or raised.
GetPromptFinishesGone ==
    /\ pc = "await_get_prompt"
    /\ LET params == GetOr(message.value, "params", EmptyDict)
       IN  \E out \in get_prompt(Get(params, "name"), Get(params, "arguments")) :
              /\ out.kind # "blocks"
              /\ raised' = IF out.kind = "raise" THEN out.error ELSE raised
    /\ Escapes
    /\ UNCHANGED <<body, request_data, message, written, eofs, calls, probe, reader, stream, conc>>

\* Lines 282-287: write_eof fails with the client gone; the failure is
\* swallowed and the handler returns.
CompleteGone ==
    /\ pc = "write_eof"
    /\ pc' = "returned"
    /\ UNCHANGED <<body, request_data, message, written, eofs, calls, raised, exc, probe, reader, stream, conc>>

----------------------------------------------------------------------------
(* Two concurrent exchanges.  Each call of mcp_handler is a coroutine with   *)
(* its own locals; the event loop runs one coroutine at a time and changes   *)
(* to the other where the running one awaits.                               *)

\* The requests the two clients send.
ConcMessages ==
    {m \in Messages :
        "params" \in DOMAIN m =>
            /\ IsDict(m.params)
            /\ "name" \in DOMAIN m.params
            /\ m.params.name = Str("md")}

ConcBodies == {<<>>, <<BAD>>, <<JUNK>>} \cup {<<Json(m)>> : m \in ConcMessages}

\* Lines 126-134, for one of the two clients.
ArriveConc ==
    /\ pc = "idle"
    /\ \E b \in ConcBodies : body' = b
    /\ pc' = "read"
    /\ UNCHANGED <<request_data, message, written, eofs, calls, raised, exc, probe, reader, stream, conc>>

\* The locals of the running exchange.
Locals ==
    [pc |-> pc, body |-> body, request_data |-> request_data,
     message |-> message, written |-> written, eofs |-> eofs, calls |-> calls,
     raised |-> raised, exc |-> exc]

\* The running coroutine awaits, and the event loop runs the other one.  A
\* call that blocks holds the loop's thread.
Switch ==
    /\ pc # "blocked"
    /\ parked' = Locals
    /\ current' = 3 - current
    /\ pc' = parked.pc
    /\ body' = parked.body
    /\ request_data' = parked.request_data
    /\ message' = parked.message
    /\ written' = parked.written
    /\ eofs' = parked.eofs
    /\ calls' = parked.calls
    /\ raised' = parked.raised
    /\ exc' = parked.exc
    /\ UNCHANGED <<probe, reader, stream>>

----------------------------------------------------------------------------
(* health: streamable_http_adapter.py, lines 290-292 *)

\* A health that reports the failure of the last collaborator call.
health_after_failure ==
    IF raised # NoError \/ exc # NoError
    THEN [state |-> "answered", status |-> 500, text |-> "error"]
    ELSE [state |-> "answered", status |-> 200, text |-> "ok"]

\* web.Response(text="ok"); the status defaults to 200.
health == [state |-> "answered", status |-> 200, text |-> "ok"]

\* A client sends GET /health.
HealthRequest ==
    /\ probe.state # "pending"
    /\ probe' = [state |-> "pending"]
    /\ UNCHANGED <<exchange, reader, stream, conc>>

\* The event loop runs health, unless a blocked call holds its thread.
Health ==
    /\ probe.state = "pending"
    /\ pc # "blocked"
    /\ probe' = health
    /\ UNCHANGED <<exchange, reader, stream, conc>>

----------------------------------------------------------------------------

Next ==
    \/ Arrive
    \/ ReadBody
    \/ Parse
    \/ Dispatch
    \/ ListPromptsReturns
    \/ GetPromptFinishes
    \/ GetPromptBlocks
    \/ Complete
    \/ Release
    \/ HealthRequest
    \/ Health

Spec == Init /\ [][Next]_vars

NextReader ==
    \/ ReaderWrite
    \/ SetEof
    \/ ReadLine
    \/ ReadLineWake
    \/ Read
    \/ ReadWake
    \/ ReadExactly
    \/ ReadExactlyWake

\* A MemoryReader with its producer and its consumer.
SpecReader == Init /\ [][NextReader]_vars

NextDisc ==
    \/ Arrive
    \/ ReadBody
    \/ Parse
    \/ Dispatch
    \/ ListPromptsReturns
    \/ GetPromptFinishes
    \/ GetPromptBlocks
    \/ Complete
    \/ Release
    \/ ReadBodyGone
    \/ ParseGone
    \/ DispatchGone
    \/ ListPromptsReturnsGone
    \/ GetPromptFinishesGone
    \/ CompleteGone

\* Exchanges whose client may disconnect at any point.
SpecDisc == Init /\ [][NextDisc]_vars

NextConc ==
    \/ ArriveConc
    \/ ReadBody
    \/ Parse
    \/ Dispatch
    \/ ListPromptsReturns
    \/ GetPromptFinishes
    \/ GetPromptBlocks
    \/ Complete
    \/ Release
    \/ Switch

\* Two exchanges at a time.
SpecConc == Init /\ [][NextConc]_vars

NextStream ==
    \/ EngineWrite
    \/ EngineDone
    \/ DrainObserve
    \/ DrainInspect
    \/ DrainClose

\* A streaming exchange: the event loop runs the drain loop whenever its
\* sleep has ended, and the engine task to its end.
SpecStream ==
    Init /\ [][NextStream]_vars /\ WF_vars(Drain) /\ WF_vars(EngineDone)

\* The steps of an exchange: those of the handler and of the call it awaits.
ExchangeStep ==
    \/ ReadBody
    \/ Parse
    \/ Dispatch
    \/ ListPromptsReturns
    \/ GetPromptFinishes
    \/ GetPromptBlocks
    \/ Complete
    \/ Release

\* The event loop runs every handler that is ready, and an awaited call ends
\* or blocks; clients are free to send requests or not.
LiveSpec == Spec /\ WF_vars(ExchangeStep) /\ WF_vars(Health)

----------------------------------------------------------------------------
(* Properties of mcp_handler and health *)

\* The body mcp_handler read, when request.read() returned one.
HasRead == request_data.bound
Data == request_data.value

\* The one envelope of the response.
Only == written[1]
IsError(env) == "error" \in DOMAIN env
IsResult(env) == "result" \in DOMAIN env
TotalCalls == calls.list_prompts + calls.get_prompt

\* The id the request carries: null when it has none.
RequestId(msg) == IF "id" \in DOMAIN msg THEN msg.id ELSE [kind |-> "null"]

\* C1: when the body read is empty (zero bytes), the handler has written
\* exactly one envelope, an error with code -32600 and id null, has closed the
\* response and returned, and has invoked no collaborator.
C1_EmptyBodyRejected ==
    (HasRead /\ Len(Data) = 0) =>
        /\ pc = "returned"
        /\ Len(written) = 1
        /\ IsError(Only) /\ ~IsResult(Only)
        /\ Only.error.code = -32600
        /\ Only.id = [kind |-> "null"]
        /\ eofs = 1
        /\ calls.list_prompts = 0 /\ calls.get_prompt = 0

C1_Witness == HasRead /\ Len(Data) = 0 /\ pc = "returned"

\* A body that holds a byte that is not valid UTF-8.
InvalidUtf8(data) == \E k \in 1..Len(data) : data[k].t = "bad"

\* C2: when the exchange of a non-empty body that is not valid UTF-8 is over,
\* the handler has written an error envelope with the parse-error code -32700
\* and has invoked no collaborator.
C2_InvalidUtf8Rejected ==
    (pc \in Terminal /\ HasRead /\ Len(Data) > 0 /\ InvalidUtf8(Data)) =>
        /\ Len(written) = 1
        /\ IsError(Only)
        /\ Only.error.code = -32700
        /\ TotalCalls = 0

\* A body that is valid UTF-8 and is not one JSON value with whitespace around
\* it.
NotJson(data) ==
    /\ Len(data) > 0
    /\ ~InvalidUtf8(data)
    /\ ~\E k \in 1..Len(data) :
            /\ data[k].t = "json"
            /\ \A j \in 1..Len(data) : j # k => data[j].t = "ws"

\* C3: a body that is valid UTF-8 and not JSON is rejected: the handler never
\* reaches the dispatch and invokes no collaborator, and once it has parsed the
\* body it has written exactly one error envelope with code -32700 and id null,
\* closed the response and returned.
C3_MalformedJsonRejected ==
    (HasRead /\ NotJson(Data)) =>
        /\ pc \in {"parse", "returned"}
        /\ message = Unbound
        /\ TotalCalls = 0
        /\ exc = NoError
        /\ pc = "returned" =>
              /\ Len(written) = 1
              /\ IsError(Only) /\ ~IsResult(Only)
              /\ Only.error.code = -32700
              /\ Only.id = [kind |-> "null"]
              /\ eofs = 1

C3_Witness ==
    /\ HasRead /\ NotJson(Data) /\ pc = "returned"
    /\ \E k \in 1..Len(Data) : Data[k].t = "json"

\* A parsed JSON object whose method is none of the three the handler serves.
UnknownMethod(msg) ==
    /\ msg.kind = "object"
    /\ \/ "method" \notin DOMAIN msg
       \/ msg.method \notin {[kind |-> "string", s |-> "initialize"],
                             [kind |-> "string", s |-> "prompts/list"],
                             [kind |-> "string", s |-> "prompts/get"]}

\* C4: once a JSON object with an unknown or missing method is dispatched, the
\* response holds one error envelope with code -32601 and the id of the
\* request, null when the request has none.
C4_UnknownMethodEchoesId ==
    (message.bound /\ UnknownMethod(message.value) /\ pc # "dispatch") =>
        /\ pc \in {"write_eof", "returned"}
        /\ Len(written) = 1
        /\ IsError(Only) /\ ~IsResult(Only)
        /\ Only.error.code = -32601
        /\ Only.id = RequestId(message.value)
        /\ TotalCalls = 0

C4_Witness ==
    /\ message.bound /\ UnknownMethod(message.value) /\ pc = "returned"
    /\ "id" \in DOMAIN message.value
    /\ Only.id = message.value.id

\* C5: the response to a message that parsed to a JSON object never holds more
\* than one envelope, and when the handler has returned it holds exactly one,
\* with a result member or an error member and not both.
C5_OneResultOrError ==
    (message.bound /\ message.value.kind = "object") =>
        /\ Len(written) <= 1
        /\ \A k \in 1..Len(written) : IsResult(written[k]) # IsError(written[k])
        /\ pc = "returned" => Len(written) = 1

C5_Witness ==
    /\ pc = "returned" /\ message.bound /\ message.value.kind = "object"
    /\ raised # NoError
    /\ IsError(Only)

\* C6: when the collaborator has raised, no exception has left the handler; the
\* response holds one error envelope with code -32603, the description of the
\* failure and the id of the request; the response is closed once when the
\* handler returns; and no exchange invokes a collaborator more than once.
C6_CollaboratorFailureReported ==
    /\ TotalCalls <= 1
    /\ raised # NoError =>
          /\ exc = NoError
          /\ pc \in {"write_eof", "returned"}
          /\ Len(written) = 1
          /\ IsError(Only) /\ ~IsResult(Only)
          /\ Only.error.code = -32603
          /\ Only.error.message = <<[kind |-> "string", s |-> "Internal error: "]>> \o raised
          /\ Only.id = RequestId(message.value)
          /\ TotalCalls = 1
          /\ pc = "returned" => eofs = 1

C6_Witness ==
    /\ raised = <<Str("Prompt not found: "), Str("zz")>>
    /\ pc = "returned"
    /\ "id" \in DOMAIN message.value

\* C7: an exchange that is over, by whichever path, has terminated its
\* response exactly once.
C7_ResponseClosedOnce == pc \in Terminal => eofs = 1

\* C8: an exchange that awaits a collaborator eventually completes, with an
\* envelope written and the response closed.
C8_CollaboratorCallBounded ==
    (pc \in {"await_list_prompts", "await_get_prompt"})
        ~> (pc = "returned" /\ Len(written) = 1 /\ eofs = 1)

\* C9: every answer to GET /health is status 200 with body "ok", in whatever
\* state the exchanges are, and answering changes nothing of an exchange.
C9_HealthAlwaysOk ==
    /\ [](probe.state = "answered" => probe.status = 200 /\ probe.text = "ok")
    /\ [][probe.state = "pending" /\ probe'.state = "answered" => UNCHANGED exchange]_vars

C9_Witness ==
    /\ probe.state = "answered"
    /\ pc = "returned"
    /\ raised # NoError

\* C18: no failure of a write to the response leaves mcp_handler.
C18_DisconnectAbsorbed == exc # WriteFailure

\* The id of an envelope, and its error code (0 for a result).
Summary(env) ==
    [id |-> env.id, code |-> IF IsError(env) THEN env.error.code ELSE 0]

\* What the exchange of msg, a parsed message, may answer when it runs alone.
AloneDispatch(msg) ==
    IF ~IsDict(msg) THEN {[id |-> None, code |-> -32603]}
    ELSE LET id == RequestId(msg)
             method == Get(msg, "method")
             params == GetOr(msg, "params", EmptyDict)
         IN  IF method \in {Str("initialize"), Str("prompts/list")}
             THEN {[id |-> id, code |-> 0]}
             ELSE IF method # Str("prompts/get")
             THEN {[id |-> id, code |-> -32601]}
             ELSE IF ~IsDict(params)
             THEN {[id |-> id, code |-> -32603]}
             ELSE {[id |-> id, code |-> IF out.kind = "return" THEN 0 ELSE -32603] :
                     out \in get_prompt(Get(params, "name"), Get(params, "arguments"))
                             \ {Blocks}}

\* What the exchange of body b may answer when it runs alone: the failure
\* of the read, or what b decides.
Alone(b) ==
    {[id |-> None, code |-> -32603]} \cup
    IF Len(b) = 0 THEN {[id |-> None, code |-> -32600]}
    ELSE IF ~decode(b).ok THEN {}
    ELSE IF ~loads(decode(b).text).ok THEN {[id |-> None, code |-> -32700]}
    ELSE AloneDispatch(loads(decode(b).text).value)

\* The exchange with locals l has written what it would have written alone.
AsAlone(l) ==
    /\ Len(l.written) <= 1
    /\ \A k \in 1..Len(l.written) : Summary(l.written[k]) \in Alone(l.body)
    /\ l.pc = "returned" => Len(l.written) = 1

\* C19: whatever the interleaving of two exchanges, the envelope of each has
\* the id and the result or error code that its own body decides, as when it
\* runs alone; and a step of one exchange leaves the locals of the other as
\* they are.
C19_ExchangesIndependent ==
    /\ [](AsAlone(Locals) /\ AsAlone(parked))
    /\ [][current' = current => parked' = parked]_vars

C19_Witness ==
    /\ pc = "returned" /\ parked.pc = "returned"
    /\ IsResult(written[1]) /\ written[1].id = Str("id1")
    /\ IsError(parked.written[1]) /\ parked.written[1].id = None
    /\ parked.message.bound /\ IsDict(parked.message.value)
    /\ Get(message.value, "method") = Str("initialize")

----------------------------------------------------------------------------
(* Properties of MemoryReader *)

\* The unread bytes.
Unread == SubSeq(reader_data, reader_position + 1, Len(reader_data))

\* The consumer calls readline in this step.
CallsReadline == ncalls' = ncalls + 1 /\ op'.name = "readline"

\* C10: a call of readline made when a newline is at or after the cursor
\* returns the bytes from the cursor up to and including the first newline and
\* leaves the cursor just past it; a call made when no newline remains and
\* end-of-stream is set returns the whole remaining tail and leaves the cursor
\* at the end, so that the tail is returned once and a call that finds the
\* stream drained returns the empty result.
C10_ReadlineLineOrTail ==
    [][CallsReadline =>
        LET newlines == {k \in 1..Len(Unread) : Unread[k] = 10} IN
        IF newlines # {}
        THEN LET first == CHOOSE k \in newlines : \A j \in newlines : k <= j
             IN  /\ rpc' = "idle"
                 /\ last' = SubSeq(Unread, 1, first)
                 /\ reader_position' = reader_position + first
                 /\ returned' = returned \o last'
        ELSE reader_eof =>
                 /\ rpc' = "idle"
                 /\ last' = Unread
                 /\ reader_position' = Len(reader_data)
                 /\ returned' = returned \o Unread
                 /\ reader_data' = reader_data
    ]_vars

C10_Witness ==
    /\ op.name = "readline" /\ rpc = "idle"
    /\ reader_eof
    /\ last # <<>> /\ last[Len(last)] # 10
    /\ reader_position = Len(reader_data)
    /\ Len(returned) > Len(last)

\* A call of readexactly ends in this step, by a return or by a raise.
EndsReadExactly ==
    /\ op'.name = "readexactly"
    /\ rpc' = "idle"
    /\ ncalls' = ncalls + 1 \/ rpc = "readexactly_sleep"

\* C11: a readexactly(n) that ends when end-of-stream is set and fewer than n
\* unread bytes remain raises IncompleteReadError; a readexactly(n) that
\* returns normally returns exactly n bytes, never fewer.
C11_ReadExactlyShortReadRaises ==
    [][EndsReadExactly =>
        /\ reader_eof /\ Len(Unread) < op'.n => err'
        /\ ~err' => Len(last') = op'.n
    ]_vars

C11_Witness ==
    /\ op.name = "readexactly" /\ rpc = "idle"
    /\ reader_eof
    /\ err
    /\ last # <<>>
    /\ Len(last) < op.n

\* The consumer calls read(n) with n >= 1 in this step.
CallsRead == ncalls' = ncalls + 1 /\ op'.name = "read" /\ op'.n >= 1

\* The sleep of a read(n) with n >= 1 ends in this step.
WakesRead == rpc = "read_sleep" /\ rpc' # "read_sleep" /\ op.n >= 1

\* The first n unread bytes, or all of them when there are fewer.
UpTo(n) == SubSeq(Unread, 1, Min(n, Len(Unread)))

\* C13: a read(n), n >= 1, made when an unread byte is there returns the
\* first min(n, available) bytes without suspending; made when none is there
\* and end-of-stream is set it returns the empty result without suspending;
\* made when none is there and end-of-stream is not set it suspends, once,
\* and then returns the bytes that have arrived, up to n, or the empty
\* result; a suspended read can always go on.
C13_ReadReturnsAvailable ==
    /\ [][CallsRead =>
            IF Unread # <<>>
            THEN /\ rpc' = "idle"
                 /\ last' = UpTo(op'.n)
                 /\ Len(last') \in 1..op'.n
                 /\ reader_position' = reader_position + Len(last')
            ELSE IF reader_eof
            THEN rpc' = "idle" /\ last' = <<>>
            ELSE rpc' = "read_sleep"
        ]_vars
    /\ [][WakesRead =>
            /\ rpc' = "idle"
            /\ last' = UpTo(op.n)
            /\ reader_position' = reader_position + Len(last')
        ]_vars
    /\ [](rpc = "read_sleep" => ENABLED ReadWake)

C13_Witness ==
    /\ op = [name |-> "read", n |-> 2] /\ rpc = "idle"
    /\ ~reader_eof
    /\ Len(last) = 1
    /\ returned = last
    /\ ncalls = 1

\* A call of readline returns in this step.
EndsReadLine ==
    /\ op'.name = "readline"
    /\ rpc' = "idle"
    /\ ncalls' = ncalls + 1 \/ rpc = "readline_sleep"

\* C14: readline returns the empty result only when end-of-stream is set and
\* every byte has been read; while the producer may still write, it does not
\* report an empty result.
C14_ReadlineNoFalseEof ==
    [][EndsReadLine /\ last' = <<>> => reader_eof /\ Unread = <<>>]_vars

\* C15: readexactly(n) raises IncompleteReadError only when end-of-stream is
\* set: while the producer may still write, it keeps reading until it has n
\* bytes.
C15_ReadExactlyWaitsForWrites ==
    [][EndsReadExactly /\ err' => reader_eof]_vars

\* C16: between operations the cursor is within the buffer,
\* 0 <= _position <= len(_data).
C16_CursorWithinBuffer ==
    0 <= reader_position /\ reader_position <= Len(reader_data)

C16_Witness ==
    /\ rpc = "idle"
    /\ ncalls >= 2
    /\ Len(reader_data) >= 2
    /\ reader_position = Len(reader_data)

\* C17: once end-of-stream is set, no step changes the buffer: a write does
\* not append.
C17_NoAppendAfterEof ==
    [][reader_eof => reader_data' = reader_data]_vars

\* C20: the bytes handed to the consumer so far, concatenated, are the first
\* _position bytes written; and a readline that finds no newline before
\* end-of-stream is set leaves the cursor where it was.
C20_NothingLostDuplicatedReordered ==
    /\ [](returned = SubSeq(reader_data, 1, reader_position))
    /\ [][CallsReadline /\ ~reader_eof /\ (\A k \in 1..Len(Unread) : Unread[k] # NL)
            => reader_position' = reader_position /\ returned' = returned]_vars

C20_Witness ==
    /\ op.name = "readline" /\ rpc = "idle"
    /\ ~reader_eof
    /\ last = <<>>
    /\ returned # <<>>
    /\ Unread # <<>>

----------------------------------------------------------------------------
(* Properties of the streaming mode *)

====
